---- MODULE Spec2Model ----
(***************************************************************************)
(* NutriScan backend (src/Backend/app.py): the two lookup handlers         *)
(* scan_barcode and search_product, and the normalisation helpers          *)
(* parse_ingredients, classify_additives and build_product_response.       *)
(*                                                                         *)
(* JSON / Python values are tagged records [t, v]:                         *)
(*   "none"  Python None (JSON null, or get_json returning None)           *)
(*   "bool"  v \in BOOLEAN          "num"  v \in Int                       *)
(*   "str"   v a sequence of characters (one-character strings)            *)
(*   "list"  v a sequence of values                                        *)
(*   "dict"  v a record of the keys the code reads; a key that is missing  *)
(*           holds Absent                                                  *)
(* A Python call either returns or raises: [kind |-> "ok", value |-> x]    *)
(* or [kind |-> "raise", exc |-> <exception class>].                       *)
(***************************************************************************)
EXTENDS Integers, Sequences, FiniteSets, TLC

VARIABLES pc, handler, body, sent, upstream, calls, response, unhandled, fn, arg, ret

vars == <<pc, handler, body, sent, upstream, calls, response, unhandled, fn, arg, ret>>

(* ------------------------------ bounds -------------------------------- *)
\* longest raw ingredients string drawn for parse_ingredients
MaxRawLen == 4
\* most chunks concatenated into one additive tag
MaxChunks == 2
\* most tags in one additive tag list
MaxTags == 2
\* longest all-digit barcode drawn for a request (the rule's upper limit is 14)
MaxDigits == 15
\* upstream calls after which a (mutated) retrying handler is cut off
MaxCalls == 3

(* ------------------------------ values -------------------------------- *)
None == [t |-> "none", v |-> 0]
Absent == [t |-> "absent", v |-> 0]
JBool(b) == [t |-> "bool", v |-> b]
JNum(n) == [t |-> "num", v |-> n]
JStr(s) == [t |-> "str", v |-> s]
JList(l) == [t |-> "list", v |-> l]
JDict(d) == [t |-> "dict", v |-> d]

Ok(x) == [kind |-> "ok", value |-> x]
Raise(e) == [kind |-> "raise", exc |-> e]

\* U+2022, the bullet the ingredient splitter accepts
Bullet == "U+2022"
\* U+0664 ARABIC-INDIC DIGIT FOUR: a decimal digit (category Nd) outside ASCII
ArabicFour == "U+0664"

AsciiDigits == {"0", "1", "2", "3", "4", "5", "6", "7", "8", "9"}
\* the characters str.strip() removes (those drawn here)
Whitespace == {" ", "\n"}

\* Python truthiness: `if x`, `not x`
Truthy(x) ==
  CASE x.t = "none" -> FALSE
    [] x.t = "bool" -> x.v
    [] x.t = "num" -> x.v # 0
    [] x.t = "str" -> Len(x.v) > 0
    [] x.t = "list" -> Len(x.v) > 0
    [] x.t = "dict" -> \E k \in DOMAIN x.v : x.v[k] # Absent

\* dict.get(key, default) on a mapping
Get(d, key, default) == IF d.v[key] = Absent THEN default ELSE d.v[key]

RECURSIVE LStrip(_)
LStrip(s) == IF s # <<>> /\ Head(s) \in Whitespace THEN LStrip(Tail(s)) ELSE s

RECURSIVE RStrip(_)
RStrip(s) ==
  IF s # <<>> /\ s[Len(s)] \in Whitespace THEN RStrip(SubSeq(s, 1, Len(s) - 1)) ELSE s

\* str.strip()
Strip(s) == RStrip(LStrip(s))

\* str.upper() / str.lower() on the characters drawn
UpperChar(c) ==
  CASE c = "e" -> "E" [] c = "n" -> "N" [] c = "f" -> "F" [] c = "r" -> "R"
    [] c = "m" -> "M" [] c = "a" -> "A" [] c = "b" -> "B" [] OTHER -> c
LowerChar(c) ==
  CASE c = "E" -> "e" [] c = "N" -> "n" [] c = "F" -> "f" [] c = "R" -> "r"
    [] c = "M" -> "m" [] c = "A" -> "a" [] c = "B" -> "b" [] OTHER -> c
Upper(s) == [i \in 1..Len(s) |-> UpperChar(s[i])]
Lower(s) == [i \in 1..Len(s) |-> LowerChar(s[i])]

\* s.replace("en:", ""): every non-overlapping occurrence, left to right
RECURSIVE ReplaceEn(_)
ReplaceEn(s) ==
  IF Len(s) < 3 THEN s
  ELSE IF SubSeq(s, 1, 3) = <<"e", "n", ":">> THEN ReplaceEn(SubSeq(s, 4, Len(s)))
  ELSE <<Head(s)>> \o ReplaceEn(Tail(s))

(* -------------------------- parse_ingredients -------------------------- *)
\* the character class of re.split(r"[,;•]", raw_text)
DelimitersMutant == {",", ";"}

Delimiters == {",", ";", Bullet}

\* re.split: the fragments between delimiters, n delimiters giving n + 1
RECURSIVE ReSplit(_, _)
ReSplit(s, cur) ==
  IF s = <<>> THEN <<cur>>
  ELSE IF Head(s) \in Delimiters THEN <<cur>> \o ReSplit(Tail(s), <<>>)
  ELSE ReSplit(Tail(s), Append(cur, Head(s)))

\* [item.strip() for item in parts if item.strip()]
RECURSIVE Cleaned(_)
Cleaned(parts) ==
  IF parts = <<>> THEN <<>>
  ELSE IF Strip(Head(parts)) # <<>>
       THEN <<JStr(Strip(Head(parts)))>> \o Cleaned(Tail(parts))
       ELSE Cleaned(Tail(parts))

parse_ingredients(raw_text) ==
  IF ~Truthy(raw_text) THEN Ok(JList(<<>>))
  ELSE IF raw_text.t # "str" THEN Raise("TypeError")
  ELSE Ok(JList(Cleaned(ReSplit(raw_text.v, <<>>))))

(* -------------------------- classify_additives ------------------------- *)
\* the elements a Python for-loop draws from a list or a string (its characters)
Iter(x) == IF x.t = "str" THEN [i \in 1..Len(x.v) |-> JStr(<<x.v[i]>>)] ELSE x.v
Iterable(x) == x.t \in {"str", "list"}

PRESERVATIVE_CODES ==
  {<<"e", "2", "0", "0">>, <<"e", "2", "0", "1">>, <<"e", "2", "0", "2">>, <<"e", "2", "0", "3">>,
   <<"e", "2", "1", "0">>, <<"e", "2", "1", "1">>, <<"e", "2", "1", "2">>, <<"e", "2", "1", "3">>,
   <<"e", "2", "1", "4">>, <<"e", "2", "1", "5">>, <<"e", "2", "1", "6">>, <<"e", "2", "1", "7">>,
   <<"e", "2", "1", "8">>, <<"e", "2", "1", "9">>, <<"e", "2", "2", "0">>, <<"e", "2", "2", "1">>,
   <<"e", "2", "2", "2">>, <<"e", "2", "2", "3">>, <<"e", "2", "2", "4">>, <<"e", "2", "2", "5">>,
   <<"e", "2", "2", "6">>, <<"e", "2", "2", "7">>, <<"e", "2", "2", "8">>, <<"e", "2", "3", "0">>,
   <<"e", "2", "3", "1">>, <<"e", "2", "3", "2">>, <<"e", "2", "3", "3">>, <<"e", "2", "3", "4">>,
   <<"e", "2", "3", "5">>, <<"e", "2", "3", "9">>, <<"e", "2", "4", "2">>, <<"e", "2", "4", "9">>,
   <<"e", "2", "5", "0">>, <<"e", "2", "5", "1">>, <<"e", "2", "5", "2">>, <<"e", "2", "6", "0">>,
   <<"e", "2", "6", "1">>, <<"e", "2", "6", "2">>, <<"e", "2", "6", "3">>, <<"e", "2", "7", "0">>,
   <<"e", "2", "8", "0">>, <<"e", "2", "8", "1">>, <<"e", "2", "8", "2">>, <<"e", "2", "8", "3">>,
   <<"e", "2", "8", "4">>, <<"e", "2", "8", "5">>, <<"e", "2", "9", "0">>}

\* line 96: name = tag.replace("en:", "").strip()
CleanTag(tag) == Strip(ReplaceEn(tag))

\* the loop of lines 94-102; a tag without .replace raises AttributeError
RECURSIVE ClassifyLoop(_, _, _)
ClassifyLoop(tags, additives, preservatives) ==
  IF tags = <<>> THEN Ok([additives |-> additives, preservatives |-> preservatives])
  ELSE IF Head(tags).t # "str" THEN Raise("AttributeError")
  ELSE LET name == CleanTag(Head(tags).v)
           code == Lower(name)
       IN IF code \in PRESERVATIVE_CODES
          THEN ClassifyLoop(Tail(tags), additives, Append(preservatives, JStr(Upper(name))))
          ELSE ClassifyLoop(Tail(tags), Append(additives, JStr(Upper(name))), preservatives)

classify_additives(additive_tags) ==
  IF ~Truthy(additive_tags) THEN Ok([additives |-> <<>>, preservatives |-> <<>>])
  ELSE IF ~Iterable(additive_tags) THEN Raise("TypeError")
  ELSE ClassifyLoop(Iter(additive_tags), <<>>, <<>>)

(* ------------------------ build_product_response ----------------------- *)
\* a product mapping with none of the keys the code reads
EmptyProduct ==
  [product_name |-> Absent, image_url |-> Absent, ingredients_text |-> Absent,
   additives_tags |-> Absent, categories |-> Absent, nutriscore_score |-> Absent,
   allergens_tags |-> Absent, ingredients_analysis_tags |-> Absent]

\* line 154: [a.replace("en:", "") for a in allergens_tags]
RECURSIVE StripAllergens(_)
StripAllergens(tags) ==
  IF tags = <<>> THEN Ok(<<>>)
  ELSE IF Head(tags).t # "str" THEN Raise("AttributeError")
  ELSE LET rest == StripAllergens(Tail(tags))
       IN IF rest.kind = "raise" THEN rest
          ELSE Ok(<<JStr(ReplaceEn(Head(tags).v))>> \o rest.value)

\* `if x: response[key] = y`
IfSet(cond, y) == IF cond THEN y ELSE Absent

build_product_response(product) ==
  IF product.t # "dict" THEN Raise("AttributeError")
  ELSE
    LET product_name == Get(product, "product_name", JStr(<<>>))
        image_url == Get(product, "image_url", JStr(<<>>))
        ingredients_raw == Get(product, "ingredients_text", JStr(<<>>))
        additive_tags == Get(product, "additives_tags", JList(<<>>))
        categories == Get(product, "categories", JStr(<<>>))
        nutriscore == Get(product, "nutriscore_score", None)
        allergens_tags == Get(product, "allergens_tags", JList(<<>>))
        ingredients_analysis == Get(product, "ingredients_analysis_tags", JList(<<>>))
        ingredients == parse_ingredients(ingredients_raw)
        classified == classify_additives(additive_tags)
        allergens ==
          IF ~Truthy(allergens_tags) THEN Ok(<<>>)
          ELSE IF ~Iterable(allergens_tags) THEN Raise("TypeError")
          ELSE StripAllergens(Iter(allergens_tags))
    IN IF ingredients.kind = "raise" THEN ingredients
       ELSE IF classified.kind = "raise" THEN classified
       ELSE IF allergens.kind = "raise" THEN allergens
       ELSE Ok(JDict(
         [product_name |-> IfSet(Truthy(product_name), product_name),
          image |-> IfSet(Truthy(image_url), image_url),
          ingredients |-> IfSet(Truthy(ingredients.value), ingredients.value),
          additives |-> IfSet(classified.value.additives # <<>>,
                              JList(classified.value.additives)),
          preservatives |-> IfSet(classified.value.preservatives # <<>>,
                                  JList(classified.value.preservatives)),
          categories |-> IfSet(Truthy(categories), categories),
          nutriscore_score |-> IfSet(nutriscore.t # "none", nutriscore),
          allergens_tags |-> IfSet(Truthy(allergens_tags), JList(allergens.value)),
          ingredients_analysis_tags |->
            IfSet(Truthy(ingredients_analysis), ingredients_analysis)]))

(* ---------------------------- Python helpers -------------------------- *)
DigitChar(d) == <<"0", "1", "2", "3", "4", "5", "6", "7", "8", "9">>[d + 1]

RECURSIVE Decimal(_)
Decimal(n) == IF n < 10 THEN <<DigitChar(n)>> ELSE Decimal(n \div 10) \o <<DigitChar(n % 10)>>

\* str(x) of the values drawn for a request field
PyStr(x) ==
  CASE x.t = "str" -> x.v
    [] x.t = "num" -> IF x.v < 0 THEN <<"-">> \o Decimal(-x.v) ELSE Decimal(x.v)
    [] x.t = "none" -> <<"N", "o", "n", "e">>
    [] x.t = "bool" -> IF x.v THEN <<"T", "r", "u", "e">> ELSE <<"F", "a", "l", "s", "e">>
    [] x.t = "list" /\ x.v = <<>> -> <<"[", "]">>

\* the characters of a key the handlers look up
KeyChars(key) ==
  CASE key = "barcode" -> <<"b", "a", "r", "c", "o", "d", "e">>
    [] key = "name" -> <<"n", "a", "m", "e">>

IsSubstring(sub, s) ==
  \E i \in 1..(Len(s) - Len(sub) + 1) : SubSeq(s, i, i + Len(sub) - 1) = sub

\* `key in data`: a key of a dict, an element of a list, a substring of a
\* string; a number or a boolean is not a container and raises TypeError
Contains(data, key) ==
  CASE data.t = "dict" -> Ok(data.v[key] # Absent)
    [] data.t = "list" -> Ok(\E i \in 1..Len(data.v) : data.v[i] = JStr(KeyChars(key)))
    [] data.t = "str" -> Ok(IsSubstring(KeyChars(key), data.v))
    [] OTHER -> Raise("TypeError")

\* data[key] with a string key: only a dict takes it
Subscript(data, key) == IF data.t = "dict" THEN Ok(data.v[key]) ELSE Raise("TypeError")

\* \d of a str pattern: every Unicode decimal digit, not only 0-9
UnicodeDigits == AsciiDigits \cup {ArabicFour}

AllDigits(s) == \A i \in 1..Len(s) : s[i] \in UnicodeDigits

\* re.match(r"^\d{4,14}$", barcode); $ also matches before one final newline
ReMatchBarcode(s) ==
  \/ Len(s) \in 4..14 /\ AllDigits(s)
  \/ /\ s # <<>> /\ s[Len(s)] = "\n"
     /\ Len(s) - 1 \in 4..14 /\ AllDigits(SubSeq(s, 1, Len(s) - 1))

(* ------------------------------ responses ------------------------------ *)
\* jsonify({"error": msg}), code
JsonError(code, msg) == [code |-> code, kind |-> "json_error", error |-> msg, body |-> None]
\* jsonify(result), 200
JsonProduct(result) == [code |-> 200, kind |-> "json_product", error |-> "", body |-> result]
\* what Flask sends for an exception that leaves a view function
InternalServerError ==
  [code |-> 500, kind |-> "html", error |-> "Internal Server Error", body |-> None]

Respond(r) == [kind |-> "respond", value |-> r]

(* ----------------------------- scan_barcode ---------------------------- *)
\* lines 172-182: the barcode to look up, a 400 response, or an exception
ScanValidate(data) ==
  IF ~Truthy(data) THEN Respond(JsonError(400, "Missing 'barcode' field in request body"))
  ELSE LET has == Contains(data, "barcode")
       IN IF has.kind = "raise" THEN has
          ELSE IF ~has.value
               THEN Respond(JsonError(400, "Missing 'barcode' field in request body"))
          ELSE LET item == Subscript(data, "barcode")
               IN IF item.kind = "raise" THEN item
                  ELSE LET barcode == Strip(PyStr(item.value))
                       IN IF barcode = <<>>
                          THEN Respond(JsonError(400, "Barcode cannot be empty"))
                          ELSE IF ~ReMatchBarcode(barcode)
                          THEN Respond(JsonError(400,
                                 "Invalid barcode format. Must be 4-14 digits."))
                          ELSE Ok(barcode)

\* the classes of requests.exceptions an exception is an instance of
ExceptionBases(exc) ==
  CASE exc = "ReadTimeout" -> {"ReadTimeout", "Timeout", "RequestException"}
    [] exc = "ConnectTimeout" ->
         {"ConnectTimeout", "ConnectionError", "Timeout", "RequestException"}
    [] exc = "ConnectionError" -> {"ConnectionError", "RequestException"}
    [] exc = "SSLError" -> {"SSLError", "ConnectionError", "RequestException"}
    [] exc = "TooManyRedirects" -> {"TooManyRedirects", "RequestException"}
    [] exc = "HTTPError" -> {"HTTPError", "RequestException"}

IsInstance(exc, cls) == cls \in ExceptionBases(exc)

\* resp.raise_for_status(): HTTPError for a 4xx or 5xx status
RaisesForStatus(status_code) == status_code >= 400 /\ status_code < 600

\* the exception the try block of the call ends with, "" when it ends normally
TryOutcome(outcome) ==
  IF outcome.kind = "raise" THEN outcome.exc
  ELSE IF RaisesForStatus(outcome.status_code) THEN "HTTPError"
  ELSE ""

\* lines 194-199: the first except clause that matches (error text: its prefix)
ScanExceptMutant(exc) ==
  IF IsInstance(exc, "ConnectionError")
  THEN JsonError(502, "Unable to reach external API. Check your connection.")
  ELSE IF IsInstance(exc, "Timeout")
  THEN JsonError(504, "External API timed out. Please try again.")
  ELSE JsonError(500, "API request failed: ")

ScanExcept(exc) ==
  IF IsInstance(exc, "Timeout")
  THEN JsonError(504, "External API timed out. Please try again.")
  ELSE IF IsInstance(exc, "ConnectionError")
  THEN JsonError(502, "Unable to reach external API. Check your connection.")
  ELSE JsonError(500, "API request failed: ")

\* where a handler goes once its try block has ended with exception exc
AfterCallMutant(exc) == IF exc = "" THEN "parse" ELSE IF IsInstance(exc, "Timeout") THEN "call" ELSE "done"

AfterCall(exc) == IF exc = "" THEN "parse" ELSE "done"

\* line 204: api_data.get("status") != 1, with Python's ==: True == 1
StatusIsOneMutant(status) == ~(status.t = "num" /\ status.v = 0)

StatusIsOne(status) ==
  \/ status.t = "num" /\ status.v = 1
  \/ status.t = "bool" /\ status.v

\* lines 202-213: resp.json() and what follows
ScanParse(text) ==
  IF text.t = "notjson" THEN Raise("JSONDecodeError")
  ELSE IF text.t # "dict" THEN Raise("AttributeError")
  ELSE IF ~StatusIsOne(Get(text, "status", None))
       THEN Respond(JsonError(404, "Product not found"))
  ELSE LET product == Get(text, "product", JDict(EmptyProduct))
           result == build_product_response(product)
       IN IF result.kind = "raise" THEN result
          ELSE IF ~Truthy(result.value)
               THEN Respond(JsonError(404, "Product found but contains no usable data"))
          ELSE Respond(JsonProduct(result.value))

(* ---------------------------- search_product --------------------------- *)
\* lines 226-232
SearchValidate(data) ==
  IF ~Truthy(data) THEN Respond(JsonError(400, "Missing 'name' field in request body"))
  ELSE LET has == Contains(data, "name")
       IN IF has.kind = "raise" THEN has
          ELSE IF ~has.value
               THEN Respond(JsonError(400, "Missing 'name' field in request body"))
          ELSE LET item == Subscript(data, "name")
               IN IF item.kind = "raise" THEN item
                  ELSE LET name == Strip(PyStr(item.value))
                       IN IF name = <<>>
                          THEN Respond(JsonError(400, "Product name cannot be empty"))
                          ELSE Ok(name)

\* lines 248-249: one except clause for every RequestException
SearchExcept(exc) == JsonError(500, "Search API failed: ")

\* products[0]
First(products) ==
  CASE products.t = "list" -> Ok(products.v[1])
    [] products.t = "str" -> Ok(JStr(<<products.v[1]>>))
    [] OTHER -> Raise("TypeError")

\* lines 251-259
SearchParse(text) ==
  IF text.t = "notjson" THEN Raise("JSONDecodeError")
  ELSE IF text.t # "dict" THEN Raise("AttributeError")
  ELSE LET products == Get(text, "products", JList(<<>>))
       IN IF ~Truthy(products) THEN Respond(JsonError(404, "Product not found"))
          ELSE LET first == First(products)
               IN IF first.kind = "raise" THEN first
                  ELSE LET result == build_product_response(first.value)
                       IN IF result.kind = "raise" THEN result
                          ELSE Respond(JsonProduct(result.value))

(* ------------------------------ requests ------------------------------- *)
\* every sequence over S of length at most n
SeqsUpTo(S, n) == UNION {[1..k -> S] : k \in 0..n}

Idle == [kind |-> "pending", value |-> None]
NoResponse == [code |-> 0, kind |-> "none", error |-> "", body |-> None]
NoUpstream == [kind |-> "none", exc |-> "", status_code |-> 0, text |-> None]

\* the handler state of a run that only applies a helper
HandlerIdle ==
  /\ pc = "idle" /\ handler = "none" /\ body = None /\ sent = <<>>
  /\ upstream = NoUpstream /\ calls = 0 /\ response = NoResponse /\ unhandled = ""

HandlerUnchanged == UNCHANGED <<pc, handler, body, sent, upstream, calls, response, unhandled>>

(* ----------------- parse_ingredients applied to its inputs -------------- *)
RawAlphabet == {"a", "b", " ", ",", ";", Bullet}
\* ingredients_text: a string, or None for a null field
RawTexts == {None} \cup {JStr(s) : s \in SeqsUpTo(RawAlphabet, MaxRawLen)}

InitParse ==
  /\ HandlerIdle
  /\ fn = "parse_ingredients" /\ arg \in RawTexts /\ ret = Idle

ApplyParse ==
  /\ fn = "parse_ingredients" /\ ret.kind = "pending"
  /\ ret' = parse_ingredients(arg)
  /\ UNCHANGED <<fn, arg>> /\ HandlerUnchanged

SpecParse == InitParse /\ [][ApplyParse]_vars

(* ---------------- classify_additives applied to its inputs -------------- *)
Chunks ==
  {<<"e", "n", ":">>, <<" ">>, <<"e", "2", "1", "1">>, <<"e", "3", "3", "0">>,
   <<"E", "2", "1", "1">>, <<"f", "r", ":">>}

RECURSIVE Concat(_)
Concat(ss) == IF ss = <<>> THEN <<>> ELSE Head(ss) \o Concat(Tail(ss))

Tags == {Concat(cs) : cs \in SeqsUpTo(Chunks, MaxChunks)}
TagLists == {JList(l) : l \in SeqsUpTo({JStr(g) : g \in Tags}, MaxTags)}

InitClassify ==
  /\ HandlerIdle
  /\ fn = "classify_additives" /\ arg \in TagLists /\ ret = Idle

ApplyClassify ==
  /\ fn = "classify_additives" /\ ret.kind = "pending"
  /\ ret' = classify_additives(arg)
  /\ UNCHANGED <<fn, arg>> /\ HandlerUnchanged

SpecClassify == InitClassify /\ [][ApplyClassify]_vars

(* -------------- build_product_response applied to its inputs ------------ *)
Text(s) == JStr(s)
E211 == JStr(<<"e", "n", ":", "e", "2", "1", "1">>)
E330 == JStr(<<"e", "n", ":", "e", "3", "3", "0">>)

Products ==
  {JDict(p) : p \in
    [product_name : {Absent, None, Text(<<>>), Text(<<"a">>)},
     image_url : {Absent, Text(<<"b">>)},
     ingredients_text : {Absent, Text(<<>>), Text(<<" ", ",", " ">>), Text(<<"a", ",", "b">>)},
     additives_tags : {Absent, JList(<<>>), JList(<<E211>>), JList(<<E330, E211>>)},
     categories : {Absent, Text(<<"a">>)},
     nutriscore_score : {Absent, None, JNum(0), JNum(7), Text(<<>>), JList(<<>>)},
     allergens_tags : {Absent, JList(<<>>), JList(<<Text(<<"e", "n", ":", "m">>)>>)},
     ingredients_analysis_tags : {Absent, JList(<<>>), JList(<<Text(<<"e", "n", ":", "a">>)>>)}]}

InitBuild ==
  /\ HandlerIdle
  /\ fn = "build_product_response" /\ arg \in Products /\ ret = Idle

ApplyBuild ==
  /\ fn = "build_product_response" /\ ret.kind = "pending"
  /\ ret' = build_product_response(arg)
  /\ UNCHANGED <<fn, arg>> /\ HandlerUnchanged

SpecBuild == InitBuild /\ [][ApplyBuild]_vars

(* --------------------------- the two handlers --------------------------- *)
Sevens(k) == [i \in 1..k |-> "7"]

\* barcode strings: all digits, or with one character that is not 0-9
BarcodeStrings ==
  {Sevens(k) : k \in 0..MaxDigits}
    \cup {[Sevens(k) EXCEPT ![p] = c] :
            k \in 1..MaxDigits, p \in 1..MaxDigits, c \in {"a", ArabicFour, " ", "\n"}}

BarcodeValues ==
  {JStr(s) : s \in {b \in BarcodeStrings : Len(b) <= MaxDigits}}
    \cup {None, JNum(0), JNum(123), JNum(1234), JBool(TRUE), JList(<<>>)}

NameValues ==
  {Text(<<>>), Text(<<" ">>), Text(<<"a">>), Text(<<" ", "a", "\n">>),
   None, JNum(0), JBool(FALSE), JList(<<>>)}

\* what get_json(silent=True) returns when it is no JSON object
NonDictBodies ==
  {None, JList(<<>>), JList(<<JStr(KeyChars("barcode"))>>), JList(<<JStr(KeyChars("name"))>>),
   Text(<<>>), JStr(KeyChars("barcode")), JStr(KeyChars("name")),
   JNum(0), JNum(5), JBool(TRUE), JBool(FALSE)}

EmptyBody == [barcode |-> Absent, name |-> Absent]

ScanBodies ==
  NonDictBodies
    \cup {JDict(EmptyBody), JDict([EmptyBody EXCEPT !.name = Text(<<"a">>)])}
    \cup {JDict([EmptyBody EXCEPT !.barcode = v]) : v \in BarcodeValues}

SearchBodies ==
  NonDictBodies
    \cup {JDict(EmptyBody), JDict([EmptyBody EXCEPT !.barcode = JStr(Sevens(4))])}
    \cup {JDict([EmptyBody EXCEPT !.name = v]) : v \in NameValues}

\* product payloads upstream may send
HandlerProducts ==
  {JDict(EmptyProduct),
   JDict([EmptyProduct EXCEPT !.product_name = Text(<<"a">>)]),
   JDict([EmptyProduct EXCEPT !.nutriscore_score = JNum(0)]),
   JDict([EmptyProduct EXCEPT !.nutriscore_score = None, !.product_name = Text(<<>>)]),
   JDict([EmptyProduct EXCEPT !.ingredients_text = Text(<<" ", ",", " ">>)]),
   JDict([EmptyProduct EXCEPT !.additives_tags = JList(<<JNum(5)>>)]),
   JDict([EmptyProduct EXCEPT !.product_name = Text(<<"a">>),
                              !.ingredients_text = Text(<<"a", ",", "b">>),
                              !.additives_tags = JList(<<E330, E211>>)])}

NotJson == [t |-> "notjson", v |-> 0]
EmptyEnvelope == [status |-> Absent, product |-> Absent, products |-> Absent]

ScanTexts ==
  {NotJson, None, JList(<<>>)}
    \cup {JDict([EmptyEnvelope EXCEPT !.status = s, !.product = p]) :
            s \in {Absent, JNum(0), JNum(1), JBool(TRUE), Text(<<"1">>)},
            p \in {Absent, None, JList(<<>>)} \cup HandlerProducts}

SearchTexts ==
  {NotJson, None, JList(<<>>)}
    \cup {JDict([EmptyEnvelope EXCEPT !.products = ps]) :
            ps \in {Absent, None, JList(<<>>), JNum(5), Text(<<"a">>), JList(<<None>>)}
                     \cup {JList(<<p>>) : p \in HandlerProducts}}

StatusCodes == {200, 304, 404, 503}
TransportErrors == {"ReadTimeout", "ConnectTimeout", "ConnectionError", "SSLError", "TooManyRedirects"}

\* what requests.get does: raises, or returns a response
Outcomes(texts) ==
  {[kind |-> "raise", exc |-> e, status_code |-> 0, text |-> None] : e \in TransportErrors}
    \cup {[kind |-> "response", exc |-> "", status_code |-> c, text |-> x] :
            c \in StatusCodes, x \in texts}

Init ==
  /\ HandlerIdle
  /\ fn = "none" /\ arg = None /\ ret = Idle

HelpersUnchanged == UNCHANGED <<fn, arg, ret>>

\* a POST /scan-barcode arrives
ReceiveScan ==
  /\ pc = "idle"
  /\ \E b \in ScanBodies : body' = b
  /\ handler' = "scan" /\ pc' = "validate"
  /\ UNCHANGED <<sent, upstream, calls, response, unhandled>> /\ HelpersUnchanged

\* a POST /search-product arrives
ReceiveSearch ==
  /\ pc = "idle"
  /\ \E b \in SearchBodies : body' = b
  /\ handler' = "search" /\ pc' = "validate"
  /\ UNCHANGED <<sent, upstream, calls, response, unhandled>> /\ HelpersUnchanged

\* the step a validation result leads to
Validated(v) ==
  /\ pc' = (CASE v.kind = "ok" -> "call" [] v.kind = "respond" -> "done" [] OTHER -> "fault")
  /\ sent' = (IF v.kind = "ok" THEN v.value ELSE sent)
  /\ response' = (IF v.kind = "respond" THEN v.value ELSE response)
  /\ unhandled' = (IF v.kind = "raise" THEN v.exc ELSE unhandled)
  /\ UNCHANGED <<handler, body, upstream, calls>> /\ HelpersUnchanged

scan_barcode_validate == pc = "validate" /\ handler = "scan" /\ Validated(ScanValidate(body))

search_product_validate ==
  pc = "validate" /\ handler = "search" /\ Validated(SearchValidate(body))

\* the try block: requests.get, raise_for_status, and the except clauses
Called(o, on_error) ==
  /\ upstream' = o
  /\ calls' = calls + 1
  /\ pc' = AfterCall(TryOutcome(o))
  /\ response' = (IF TryOutcome(o) = "" THEN response ELSE on_error)
  /\ UNCHANGED <<handler, body, sent, unhandled>> /\ HelpersUnchanged

scan_barcode_call ==
  /\ pc = "call" /\ handler = "scan" /\ calls < MaxCalls
  /\ \E o \in Outcomes(ScanTexts) : Called(o, ScanExcept(TryOutcome(o)))

search_product_call ==
  /\ pc = "call" /\ handler = "search" /\ calls < MaxCalls
  /\ \E o \in Outcomes(SearchTexts) : Called(o, SearchExcept(TryOutcome(o)))

\* the step the code after the try block leads to
Parsed(r) ==
  /\ pc' = (IF r.kind = "respond" THEN "done" ELSE "fault")
  /\ response' = (IF r.kind = "respond" THEN r.value ELSE response)
  /\ unhandled' = (IF r.kind = "raise" THEN r.exc ELSE unhandled)
  /\ UNCHANGED <<handler, body, sent, upstream, calls>> /\ HelpersUnchanged

scan_barcode_parse == pc = "parse" /\ handler = "scan" /\ Parsed(ScanParse(upstream.text))

search_product_parse ==
  pc = "parse" /\ handler = "search" /\ Parsed(SearchParse(upstream.text))

\* an exception left the view function: Flask answers 500 itself
handle_exception ==
  /\ pc = "fault"
  /\ response' = InternalServerError
  /\ pc' = "done"
  /\ UNCHANGED <<handler, body, sent, upstream, calls, unhandled>> /\ HelpersUnchanged

Next ==
  \/ ReceiveScan
  \/ ReceiveSearch
  \/ scan_barcode_validate
  \/ scan_barcode_call
  \/ scan_barcode_parse
  \/ search_product_validate
  \/ search_product_call
  \/ search_product_parse
  \/ handle_exception

Spec == Init /\ [][Next]_vars

(* ============================ C9: parse_ingredients ===================== *)
\* The claim's reading of the function, by positions instead of by scanning:
\* the cuts are the positions of a comma, semicolon or bullet (and both ends),
\* a fragment lies between two neighbouring cuts, and is trimmed to the span
\* from its first to its last non-blank character.
RefCuts(s) == {0, Len(s) + 1} \cup {i \in 1..Len(s) : s[i] \in {",", ";", "U+2022"}}

RefMin(K) == CHOOSE m \in K : \A k \in K : m <= k
RefMax(K) == CHOOSE m \in K : \A k \in K : m >= k

RefFragment(s, c) == SubSeq(s, c + 1, RefMin({d \in RefCuts(s) : d > c}) - 1)

RefTrim(f) ==
  LET solid == {i \in 1..Len(f) : f[i] \notin {" ", "\n"}}
  IN IF solid = {} THEN <<>> ELSE SubSeq(f, RefMin(solid), RefMax(solid))

RefIngredients(s) ==
  LET kept == {c \in RefCuts(s) \ {Len(s) + 1} : RefTrim(RefFragment(s, c)) # <<>>}
      nth(j) == CHOOSE c \in kept : Cardinality({d \in kept : d <= c}) = j
  IN [j \in 1..Cardinality(kept) |-> JStr(RefTrim(RefFragment(s, nth(j))))]

RefCandidate(tag) ==
  RefTrim(IF Len(tag) >= 3 /\ SubSeq(tag, 1, 3) = <<"e", "n", ":">>
          THEN SubSeq(tag, 4, Len(tag)) ELSE tag)

RefIsPreservative(tag) == Lower(RefCandidate(tag)) \in PRESERVATIVE_CODES

RECURSIVE RefSelect(_, _)
RefSelect(tags, wanted) ==
  IF tags = <<>> THEN <<>>
  ELSE IF RefIsPreservative(Head(tags).v) = wanted
       THEN <<JStr(Upper(RefCandidate(Head(tags).v)))>> \o RefSelect(Tail(tags), wanted)
       ELSE RefSelect(Tail(tags), wanted)

\* C8: for every list of additive tags, classify_additives equals the
\* reference that removes only a leading "en:" and then trims: preservatives
\* are the upper-cased candidates whose lower-cased form is in
\* PRESERVATIVE_CODES, additives the others, both in input order.
C8_ClassifyEqualsReference ==
  (fn = "classify_additives" /\ ret.kind # "pending") =>
    /\ ret.kind = "ok"
    /\ ret.value.additives = RefSelect(arg.v, FALSE)
    /\ ret.value.preservatives = RefSelect(arg.v, TRUE)

(* ========================= C7: build_product_response =================== *)
IsEmptyValue(x) ==
  \/ x.t = "none"
  \/ x.t = "str" /\ x.v = <<>>
  \/ x.t = "list" /\ x.v = <<>>

\* C7: for every product mapping, the object build_product_response returns
\* holds no key whose value is an empty string, an empty list or null; an
\* absent nutriscore_score is omitted and an explicit 0 is kept as 0.
C7_NoEmptyValues ==
  (fn = "build_product_response" /\ ret.kind = "ok") =>
    /\ \A k \in DOMAIN ret.value.v : ~IsEmptyValue(ret.value.v[k])
    /\ arg.v.nutriscore_score = Absent => ret.value.v.nutriscore_score = Absent
    /\ arg.v.nutriscore_score = JNum(0) => ret.value.v.nutriscore_score = JNum(0)

(* ======================= claims about the two handlers ================== *)
\* the field a handler reads from the request body
RefKey == IF handler = "scan" THEN "barcode" ELSE "name"

\* the format rule as the specification words it: 4 to 14 characters, each 0-9
RefAsciiBarcode(s) ==
  /\ Len(s) >= 4 /\ Len(s) <= 14
  /\ \A i \in 1..Len(s) : s[i] \in {"0", "1", "2", "3", "4", "5", "6", "7", "8", "9"}

\* the request passes validation as the specification words it
RefValidRequest ==
  /\ body.t = "dict"
  /\ body.v[RefKey] # Absent
  /\ RefTrim(PyStr(body.v[RefKey])) # <<>>
  /\ handler = "scan" => RefAsciiBarcode(RefTrim(PyStr(body.v[RefKey])))

Validating == pc \in {"idle", "validate"}

\* C1: in both handlers a request that fails input validation is answered
\* with a 400 client error and no upstream call is issued for it; an upstream
\* call is issued only after validation has passed.
C1_InvalidRequestGets400 ==
  /\ (~Validating /\ ~RefValidRequest) =>
       /\ pc = "done" /\ calls = 0
       /\ response.code = 400 /\ response.kind = "json_error"
  /\ calls > 0 => RefValidRequest

\* the envelope's status flag equals 1 the way the code compares it (!= 1)
RefStatusEqualsOne(text) ==
  /\ text.v.status # Absent
  /\ \/ text.v.status = JNum(1)
     \/ text.v.status = JBool(TRUE)

EnvelopeNotFound ==
  /\ pc = "done" /\ handler = "scan" /\ upstream.kind = "response"
  /\ upstream.text.t = "dict" /\ ~RefStatusEqualsOne(upstream.text)

\* C2 as claimed: in the barcode lookup, an upstream JSON envelope whose
\* status flag is not 1 is answered 404 {"error": "Product not found"},
\* whatever HTTP status code carried it.
C2_Original == EnvelopeNotFound => response = JsonError(404, "Product not found")

\* C2 as amended: that holds when the HTTP status is below 400; an envelope
\* carried by a 4xx or 5xx status is answered 500 "API request failed: ...",
\* whatever its status flag.
C2_NotFoundBelow400 ==
  EnvelopeNotFound =>
    IF upstream.status_code < 400
    THEN response = JsonError(404, "Product not found")
    ELSE response = JsonError(500, "API request failed: ")

\* a 200 answer with status 0 was turned into the 404
C2_Witness ==
  /\ EnvelopeNotFound /\ upstream.status_code = 200
  /\ upstream.text.v.status = JNum(0)
  /\ response = JsonError(404, "Product not found")

\* C3: every 200 response of scan_barcode and of search_product carries a
\* non-empty normalized object; a record that normalizes to an empty object
\* is answered 404.
C3_SuccessIsNonEmpty ==
  (pc = "done" /\ response.code = 200) =>
    /\ response.kind = "json_product"
    /\ \E k \in DOMAIN response.body.v : response.body.v[k] # Absent

\* C4: every request ends in a 200 with a normalized object or in a structured
\* {"error": message} body with a code in {400, 404, 500, 502, 504}; no
\* exception leaves the handler.
C4_NoUnhandledException ==
  /\ unhandled = ""
  /\ pc # "fault"
  /\ pc = "done" =>
       \/ response.kind = "json_product" /\ response.code = 200
       \/ response.kind = "json_error" /\ response.code \in {400, 404, 500, 502, 504}

\* C5: in the barcode lookup a timeout is answered 504 "External API timed
\* out. Please try again.", a connection failure 502, any other transport
\* failure 500; a connect timeout, which is both, is answered as the timeout.
C5_TransportErrors ==
  (pc = "done" /\ handler = "scan" /\ calls > 0) =>
    /\ upstream.exc \in {"ReadTimeout", "ConnectTimeout"} =>
         response = JsonError(504, "External API timed out. Please try again.")
    /\ upstream.exc \in {"ConnectionError", "SSLError"} =>
         response.code = 502 /\ response.kind = "json_error"
    /\ upstream.exc = "TooManyRedirects" =>
         response.code = 500 /\ response.kind = "json_error"
    /\ (upstream.kind = "response" /\ upstream.status_code >= 400) =>
         response.code = 500 /\ response.kind = "json_error"

\* a connect timeout was answered 504
C5_Witness ==
  /\ pc = "done" /\ handler = "scan" /\ upstream.exc = "ConnectTimeout"
  /\ response.code = 504

\* C6: scan_barcode accepts a value exactly when, coerced to a string and
\* trimmed, it is 4 to 14 ASCII digits; every other value is answered 400
\* before any upstream call.
C6_BarcodeFormat ==
  (handler = "scan" /\ ~Validating /\ body.t = "dict" /\ body.v.barcode # Absent) =>
    IF RefAsciiBarcode(RefTrim(PyStr(body.v.barcode)))
    THEN sent = RefTrim(PyStr(body.v.barcode)) /\ (pc = "call" \/ calls > 0)
    ELSE pc = "done" /\ response.code = 400 /\ calls = 0 /\ sent = <<>>

\* the order of a request's steps
Rank(p) ==
  CASE p = "idle" -> 0 [] p = "validate" -> 1 [] p = "call" -> 2
    [] p = "parse" -> 3 [] p = "fault" -> 4 [] p = "done" -> 5

\* the upstream call ended in a timeout, a connection failure or another
\* transport failure (an error status included)
CallFailed(o) == o.kind = "raise" \/ (o.kind = "response" /\ o.status_code >= 400)

\* C10: a request issues at most one upstream call: the call is issued once,
\* from the calling step; a call that fails is answered in that same step;
\* no step leads back to the call (no retry), every step after the call leads
\* on to the response, and a finished request has its response.
C10_AtMostOneCall ==
  /\ [](calls <= 1)
  /\ [](upstream.kind # "none" => calls = 1 /\ pc # "call")
  /\ [][calls' # calls => (pc = "call" /\ calls = 0 /\ calls' = 1)]_vars
  /\ [][(calls' # calls /\ CallFailed(upstream')) =>
          (pc' = "done" /\ response'.code \in {500, 502, 504})]_vars
  /\ [][Rank(pc') > Rank(pc)]_vars
  /\ [](pc = "done" => response.code # 0)

\* a timed-out call was answered without a second call
C10_Witness ==
  /\ pc = "done" /\ calls = 1 /\ upstream.exc = "ReadTimeout"
  /\ response.code = 504

====
